---- MODULE Spec2Model ----
(***************************************************************************)
(* Model of server.py: a Flask application with two view functions,        *)
(* started by print(...) followed by app.run(host=hostname, port=port).    *)
(*                                                                         *)
(* Text (request paths, response bodies, the startup line) is modelled as  *)
(* sequences of one-character strings so that lengths, trailing newlines   *)
(* and slashes are part of the value.                                      *)
(***************************************************************************)
EXTENDS Integers, Sequences, FiniteSets, TLC

\* ---------------------------------------------------------------- bounds
MaxRequests == 2    \* requests accepted during one run of the process
MaxConn == 2        \* connections handled concurrently (threaded server)

\* ------------------------------------------------------ server.py:4-5
hostname == <<"1","2","7",".","0",".","0",".","1">>
port == 3000

None == "None"

\* the address of a server that has no bound listener
Unbound == [host |-> <<>>, port |-> 0]

\* ------------------------------------------------------------ text helpers
RECURSIVE lstrip(_)
\* str.lstrip("/"): drop every leading slash
lstrip(s) == IF s # <<>> /\ Head(s) = "/" THEN lstrip(Tail(s)) ELSE s

RECURSIVE merge_slashes(_)
\* re.sub("/{2,}?", "/", path): each non-overlapping pair of slashes,
\* scanning left to right, becomes one slash
merge_slashes(s) ==
  IF Len(s) < 2 THEN s
  ELSE IF s[1] = "/" /\ s[2] = "/"
       THEN <<"/">> \o merge_slashes(SubSeq(s, 3, Len(s)))
       ELSE <<s[1]>> \o merge_slashes(Tail(s))

Digit(d) == CASE d = 0 -> "0" [] d = 1 -> "1" [] d = 2 -> "2" [] d = 3 -> "3"
              [] d = 4 -> "4" [] d = 5 -> "5" [] d = 6 -> "6" [] d = 7 -> "7"
              [] d = 8 -> "8" [] d = 9 -> "9"

RECURSIVE str(_)
\* decimal formatting of a non-negative integer inside the f-string
str(n) == IF n < 10 THEN <<Digit(n)>> ELSE str(n \div 10) \o <<Digit(n % 10)>>

\* f'Server running at http://{hostname}:{port}/'
startup_line(h, p) ==
  <<"S","e","r","v","e","r"," ","r","u","n","n","i","n","g"," ","a","t"," ",
    "h","t","t","p",":","/","/">> \o h \o <<":">> \o str(p) \o <<"/">>

\* ------------------------------------------------------------ requests
Methods == {"GET", "HEAD", "OPTIONS", "POST"}

P_root == <<"/">>
P_evening == <<"/","e","v","e","n","i","n","g">>
P_evening_slash == P_evening \o <<"/">>
P_Evening == <<"/","E","v","e","n","i","n","g">>
P_slash_evening == <<"/">> \o P_evening
P_static == <<"/","s","t","a","t","i","c","/","a">>
P_static_merge == <<"/","s","t","a","t","i","c","/","/","a">>

Paths == {P_root, P_evening, P_evening_slash, P_Evening, P_slash_evening,
          P_static, P_static_merge}

Requests == [method : Methods, path : Paths]

\* ------------------------------------------------------------ view functions
\* variant of index: the trailing newline is left out
index_no_newline == <<"H","e","l","l","o",","," ","W","o","r","l","d","!">>

\* def index(): return 'Hello, World!\n'
index == <<"H","e","l","l","o",","," ","W","o","r","l","d","!","\n">>

\* variant of evening: a newline is appended
evening_with_newline == <<"G","o","o","d"," ","e","v","e","n","i","n","g","\n">>

\* def evening(): return 'Good evening'
evening == <<"G","o","o","d"," ","e","v","e","n","i","n","g">>

\* files under the application's static folder: the repository ships none
StaticFiles == {}

\* ------------------------------------------------------------ route table
\* Flask(__name__): the static folder defaults to "static", so the
\* constructor registers /static/<path:filename> for endpoint "static"
static_rule ==
  [rule |-> <<"/","s","t","a","t","i","c","/">>, converter |-> "path",
   methods |-> {"GET", "HEAD", "OPTIONS"}, endpoint |-> "static",
   provide_automatic_options |-> TRUE]

Flask ==
  [url_map |-> <<static_rule>>,
   view_functions |-> [e \in {"static"} |-> "send_static_file"]]

\* variant of add_url_rule: the route is registered for POST as well
add_url_rule_with_post(app, rule, methods, endpoint) ==
  [url_map |-> Append(app.url_map,
                      [rule |-> rule, converter |-> "none",
                       methods |-> methods \cup {"OPTIONS", "HEAD", "POST"},
                       endpoint |-> endpoint,
                       provide_automatic_options |-> TRUE]),
   view_functions |-> [e \in DOMAIN app.view_functions \cup {endpoint} |->
                         IF e = endpoint THEN endpoint
                         ELSE app.view_functions[e]]]

\* @app.route(rule, methods=...): add_url_rule adds OPTIONS when the caller
\* did not list it (and then answers OPTIONS itself); the Rule adds HEAD
\* whenever GET is listed
add_url_rule(app, rule, methods, endpoint) ==
  LET auto == "OPTIONS" \notin methods
      m1 == IF auto THEN methods \cup {"OPTIONS"} ELSE methods
      m2 == IF "GET" \in m1 THEN m1 \cup {"HEAD"} ELSE m1
  IN [url_map |-> Append(app.url_map,
                         [rule |-> rule, converter |-> "none", methods |-> m2,
                          endpoint |-> endpoint,
                          provide_automatic_options |-> auto]),
      view_functions |-> [e \in DOMAIN app.view_functions \cup {endpoint} |->
                            IF e = endpoint THEN endpoint
                            ELSE app.view_functions[e]]]

\* the application object once lines 8-19 have run
app == add_url_rule(add_url_rule(Flask, P_root, {"GET"}, "index"),
                    P_evening, {"GET"}, "evening")

\* ------------------------------------------------------------ routing
\* variant of rule_matches: a static rule also matches with a slash appended
rule_matches_lenient(r, path) ==
  IF r.converter = "path"
  THEN /\ Len(path) > Len(r.rule)
       /\ SubSeq(path, 1, Len(r.rule)) = r.rule
       /\ path[Len(r.rule) + 1] # "/"
  ELSE path = r.rule \/ path = r.rule \o <<"/">>

\* a static rule matches its own text only (strict slashes); the path
\* converter matches a non-empty remainder that does not start with a slash
rule_matches(r, path) ==
  IF r.converter = "path"
  THEN /\ Len(path) > Len(r.rule)
       /\ SubSeq(path, 1, Len(r.rule)) = r.rule
       /\ path[Len(r.rule) + 1] # "/"
  ELSE path = r.rule

\* index of the first rule matching path and method, 0 when there is none
match_rule(map, method, path) ==
  LET hits == {i \in 1..Len(map) :
                 rule_matches(map[i], path) /\ method \in map[i].methods}
  IN IF hits = {} THEN 0 ELSE CHOOSE i \in hits : \A j \in hits : i <= j

\* methods of the rules that match the path but not the method
have_match_for(map, method, path) ==
  UNION {map[i].methods : i \in {j \in 1..Len(map) :
           rule_matches(map[j], path) /\ method \notin map[j].methods}}

\* MapAdapter.match: leading slashes are stripped, a miss is retried with
\* slashes merged (a hit there is a redirect), then 405 or 404
match(map, method, path_info) ==
  LET path_part == <<"/">> \o lstrip(path_info)
      rv == match_rule(map, method, path_part)
      merged == merge_slashes(path_part)
      rv2 == match_rule(map, method, merged)
      allowed == have_match_for(map, method, path_part)
                   \cup have_match_for(map, method, merged)
  IN IF rv # 0 THEN [kind |-> "rule", rule |-> rv]
     ELSE IF rv2 # 0 THEN [kind |-> "RequestRedirect", rule |-> 0]
     ELSE IF allowed # {} THEN [kind |-> "MethodNotAllowed", rule |-> 0]
     ELSE [kind |-> "NotFound", rule |-> 0]

\* ------------------------------------------------------------ responses
\* status, body, and the endpoint whose view function ran (None if none did)
Response(status, body, view) == [status |-> status, body |-> body, view |-> view]

\* bodies of the framework's error pages, by their title
ErrorPage(title) == <<"<title>", title, "</title>">>

\* call the view function registered for an endpoint
call_view(views, endpoint, path_info) ==
  CASE views[endpoint] = "index" -> Response(200, index, endpoint)
    [] views[endpoint] = "evening" -> Response(200, evening, endpoint)
    [] views[endpoint] = "send_static_file" ->
         IF path_info \in StaticFiles
         THEN Response(200, <<"file">>, endpoint)
         ELSE Response(404, ErrorPage("404 Not Found"), endpoint)

\* variant of dispatch_request: OPTIONS is passed to the view function
dispatch_request_no_auto_options(map, views, req) ==
  LET m == match(map, req.method, req.path)
  IN CASE m.kind = "NotFound" ->
            Response(404, ErrorPage("404 Not Found"), None)
       [] m.kind = "MethodNotAllowed" ->
            Response(405, ErrorPage("405 Method Not Allowed"), None)
       [] m.kind = "RequestRedirect" ->
            Response(308, ErrorPage("Redirecting..."), None)
       [] m.kind = "rule" ->
            call_view(views, map[m.rule].endpoint, req.path)

\* Flask.dispatch_request with the HTTP exceptions turned into responses
dispatch_request(map, views, req) ==
  LET m == match(map, req.method, req.path)
  IN CASE m.kind = "NotFound" ->
            Response(404, ErrorPage("404 Not Found"), None)
       [] m.kind = "MethodNotAllowed" ->
            Response(405, ErrorPage("405 Method Not Allowed"), None)
       [] m.kind = "RequestRedirect" ->
            Response(308, ErrorPage("Redirecting..."), None)
       [] m.kind = "rule" ->
            IF map[m.rule].provide_automatic_options /\ req.method = "OPTIONS"
            THEN Response(200, <<>>, None)
            ELSE call_view(views, map[m.rule].endpoint, req.path)

\* variant of full_dispatch_request: the first request of a run is refused
full_dispatch_request_warmup(map, views, got_first, req) ==
  LET rv == dispatch_request(map, views, req)
  IN IF ~got_first
     THEN Response(503, ErrorPage("503 Service Unavailable"), None)
     ELSE IF req.method = "HEAD" THEN [rv EXCEPT !.body = <<>>] ELSE rv

\* Flask.full_dispatch_request followed by the WSGI response: a HEAD
\* request gets the status of the response and no body; got_first is the
\* application's _got_first_request flag at the time of the call
full_dispatch_request(map, views, got_first, req) ==
  LET rv == dispatch_request(map, views, req)
  IN IF req.method = "HEAD" THEN [rv EXCEPT !.body = <<>>] ELSE rv

\* ------------------------------------------------------------ state
VARIABLES pc, stdout, server_address, bind_error, url_map, view_functions,
          got_first_request, conn, accepted, log

vars == <<pc, stdout, server_address, bind_error, url_map, view_functions,
          got_first_request, conn, accepted, log>>

Conns == 1..MaxConn
Idle == [st |-> "idle", req |-> None, resp |-> None]

\* the module body up to line 19 has run; line 22 is next
Init ==
  /\ pc = "main"
  /\ stdout = <<>>
  /\ server_address = Unbound
  /\ bind_error = None
  /\ url_map = app.url_map
  /\ view_functions = app.view_functions
  /\ got_first_request = FALSE
  /\ conn = [c \in Conns |-> Idle]
  /\ accepted = 0
  /\ log = <<>>

\* line 23: print(f'Server running at http://{hostname}:{port}/')
print_startup ==
  /\ pc = "main"
  /\ stdout' = Append(stdout, startup_line(hostname, port))
  /\ pc' = "run"
  /\ UNCHANGED <<server_address, bind_error, url_map, view_functions,
                 got_first_request, conn, accepted, log>>

\* variant of run_bind: the server is started without printing first
run_bind_before_print ==
  /\ pc \in {"main", "run"}
  /\ server_address' = [host |-> hostname, port |-> port]
  /\ pc' = "serving"
  /\ UNCHANGED <<stdout, bind_error, url_map, view_functions,
                 got_first_request, conn, accepted, log>>

\* variant of run_bind: app.run() without arguments, the framework's port
run_bind_default_port ==
  /\ pc = "run"
  /\ server_address' = [host |-> hostname, port |-> 5000]
  /\ pc' = "serving"
  /\ UNCHANGED <<stdout, bind_error, url_map, view_functions,
                 got_first_request, conn, accepted, log>>

\* line 24: app.run(host=hostname, port=port), the listener binds
run_bind ==
  /\ pc = "run"
  /\ server_address' = [host |-> hostname, port |-> port]
  /\ pc' = "serving"
  /\ UNCHANGED <<stdout, bind_error, url_map, view_functions,
                 got_first_request, conn, accepted, log>>

BindErrors == {"EADDRINUSE", "EACCES"}

\* variant of run_bind_fails: the error is swallowed and serving goes on
run_bind_fails_swallowed(e) ==
  /\ pc = "run"
  /\ bind_error' = e
  /\ pc' = "serving"
  /\ UNCHANGED <<stdout, server_address, url_map, view_functions,
                 got_first_request, conn, accepted, log>>

\* line 24: the bind raises OSError, which nothing in server.py catches
run_bind_fails(e) ==
  /\ pc = "run"
  /\ bind_error' = e
  /\ pc' = "terminated"
  /\ UNCHANGED <<stdout, server_address, url_map, view_functions,
                 got_first_request, conn, accepted, log>>

\* the serve loop accepts a connection and reads its request
accept(c, req) ==
  /\ pc = "serving"
  /\ conn[c].st = "idle"
  /\ accepted < MaxRequests
  /\ conn' = [conn EXCEPT ![c] = [st |-> "read", req |-> req, resp |-> None]]
  /\ accepted' = accepted + 1
  /\ UNCHANGED <<pc, stdout, server_address, bind_error, url_map,
                 view_functions, got_first_request, log>>

\* variant of handle: handling a request registers a rule for its path
handle_registers(c) ==
  /\ pc = "serving"
  /\ conn[c].st = "read"
  /\ got_first_request' = TRUE
  /\ conn' = [conn EXCEPT ![c] =
                [st |-> "done", req |-> conn[c].req,
                 resp |-> full_dispatch_request(url_map, view_functions,
                                                got_first_request, conn[c].req)]]
  /\ url_map' = Append(url_map,
                       [rule |-> conn[c].req.path, converter |-> "none",
                        methods |-> {"GET", "HEAD", "OPTIONS"},
                        endpoint |-> "index",
                        provide_automatic_options |-> TRUE])
  /\ UNCHANGED <<pc, stdout, server_address, bind_error, view_functions,
                 accepted, log>>

\* the request's thread runs the application on it
handle(c) ==
  /\ pc = "serving"
  /\ conn[c].st = "read"
  /\ got_first_request' = TRUE
  /\ conn' = [conn EXCEPT ![c] =
                [st |-> "done", req |-> conn[c].req,
                 resp |-> full_dispatch_request(url_map, view_functions,
                                                got_first_request, conn[c].req)]]
  /\ UNCHANGED <<pc, stdout, server_address, bind_error, url_map,
                 view_functions, accepted, log>>

\* the response is written and the connection closed
send(c) ==
  /\ pc = "serving"
  /\ conn[c].st = "done"
  /\ log' = Append(log, [req |-> conn[c].req, resp |-> conn[c].resp])
  /\ conn' = [conn EXCEPT ![c] = Idle]
  /\ UNCHANGED <<pc, stdout, server_address, bind_error, url_map,
                 view_functions, got_first_request, accepted>>

Next ==
  \/ print_startup
  \/ run_bind
  \/ \E e \in BindErrors : run_bind_fails(e)
  \/ \E c \in Conns, req \in Requests : accept(c, req)
  \/ \E c \in Conns : handle(c)
  \/ \E c \in Conns : send(c)

Spec == Init /\ [][Next]_vars

\* every request answered so far, with its response
Answered ==
  {log[i] : i \in 1..Len(log)}
    \cup {[req |-> conn[c].req, resp |-> conn[c].resp] :
            c \in {d \in Conns : conn[d].st = "done"}}


\* ------------------------------------------------------------ properties
HelloWorldText == <<"H","e","l","l","o",","," ","W","o","r","l","d","!">>
GoodEveningText == <<"G","o","o","d"," ","e","v","e","n","i","n","g">>
Greetings == {HelloWorldText \o <<"\n">>, GoodEveningText}

\* the path has no two slashes in a row
NoDoubleSlash(p) == \A i \in 1..(Len(p) - 1) : ~(p[i] = "/" /\ p[i + 1] = "/")

\* the path lies under /static/
UnderStatic(p) == Len(p) > 8 /\ SubSeq(p, 1, 8) = <<"/","s","t","a","t","i","c","/">>

\* C1: every answered GET request for the path "/" has status 200 and a
\* body of 14 characters: the text Hello, World! followed by one newline
C1_GetRoot ==
  \A a \in Answered :
    (a.req.method = "GET" /\ a.req.path = <<"/">>) =>
      /\ a.resp.status = 200
      /\ a.resp.body = HelloWorldText \o <<"\n">>
      /\ Len(a.resp.body) = 14

C1_Witness ==
  /\ Len(log) = 2
  /\ log[1].req # log[2].req
  /\ log[2].req = [method |-> "GET", path |-> P_root]
  /\ log[2].resp.status = 200

\* C2: every answered GET request for the path "/evening" has status 200
\* and the body Good evening, whose last character is not a newline
C2_GetEvening ==
  \A a \in Answered :
    (a.req.method = "GET" /\ a.req.path = <<"/","e","v","e","n","i","n","g">>) =>
      /\ a.resp.status = 200
      /\ a.resp.body = GoodEveningText
      /\ a.resp.body[Len(a.resp.body)] # "\n"

C2_Witness ==
  /\ Len(log) = 2
  /\ log[1].req # log[2].req
  /\ log[2].req = [method |-> "GET", path |-> P_evening]
  /\ log[2].resp.body = GoodEveningText

\* C3 as stated: every answered request whose path is neither "/" nor
\* "/evening" has status 404, whatever its method, and no greeting body
C3_Original ==
  \A a \in Answered :
    a.req.path \notin {P_root, P_evening} =>
      a.resp.status = 404 /\ a.resp.body \notin Greetings

\* C3 amended: every answered request whose path is neither "/" nor
\* "/evening", has no doubled slash and is not under /static/ has status
\* 404, whatever its method, and no greeting body; under /static/ a GET or
\* HEAD request has status 404 as well
C3_UnknownPath ==
  \A a \in Answered :
    (a.req.path \notin {P_root, P_evening} /\ NoDoubleSlash(a.req.path)) =>
      /\ ~UnderStatic(a.req.path) =>
           a.resp.status = 404 /\ a.resp.body \notin Greetings
      /\ (UnderStatic(a.req.path) /\ a.req.method \in {"GET", "HEAD"}) =>
           a.resp.status = 404 /\ a.resp.body \notin Greetings

C3_Witness ==
  /\ \E i \in 1..Len(log) :
       log[i].req = [method |-> "POST", path |-> P_evening_slash]
         /\ log[i].resp.status = 404
  /\ \E i \in 1..Len(log) :
       log[i].req = [method |-> "GET", path |-> P_Evening]
         /\ log[i].resp.status = 404

\* C4: every answered POST request for "/" or "/evening" has status 405
\* and no view function ran for it
C4_PostNotAllowed ==
  \A a \in Answered :
    (a.req.method = "POST" /\ a.req.path \in {P_root, P_evening}) =>
      a.resp.status = 405 /\ a.resp.view = None

C4_Witness ==
  /\ \E i \in 1..Len(log) :
       log[i].req = [method |-> "POST", path |-> P_root] /\ log[i].resp.status = 405
  /\ \E i \in 1..Len(log) :
       log[i].req = [method |-> "POST", path |-> P_evening]
         /\ log[i].resp.status = 405

\* C5 as stated: every answered request other than GET "/" and GET
\* "/evening" has status 404 or 405
C5_Original ==
  \A a \in Answered :
    ~(a.req.method = "GET" /\ a.req.path \in {P_root, P_evening}) =>
      a.resp.status \in {404, 405}

\* C5 amended: among answered requests whose path has no doubled slash,
\* status 200 is given exactly to GET, HEAD and OPTIONS on "/" and
\* "/evening" and to OPTIONS under /static/; every other one has status 404
\* or 405; the 200 responses to HEAD and to OPTIONS have an empty body
C5_OtherRequests ==
  \A a \in Answered :
    NoDoubleSlash(a.req.path) =>
      /\ a.resp.status = 200 <=>
           \/ a.req.path \in {P_root, P_evening}
                /\ a.req.method \in {"GET", "HEAD", "OPTIONS"}
           \/ UnderStatic(a.req.path) /\ a.req.method = "OPTIONS"
      /\ a.resp.status # 200 => a.resp.status \in {404, 405}
      /\ a.req.method \in {"HEAD", "OPTIONS"} /\ a.resp.status = 200 =>
           a.resp.body = <<>>

C5_Witness ==
  /\ \E i \in 1..Len(log) :
       log[i].req = [method |-> "HEAD", path |-> P_root]
         /\ log[i].resp.status = 200 /\ log[i].resp.body = <<>>
  /\ \E i \in 1..Len(log) :
       log[i].req = [method |-> "OPTIONS", path |-> P_evening]
         /\ log[i].resp.status = 200 /\ log[i].resp.body = <<>>

StartupLineText ==
  <<"S","e","r","v","e","r"," ","r","u","n","n","i","n","g"," ","a","t"," ",
    "h","t","t","p",":","/","/","1","2","7",".","0",".","0",".","1",":",
    "3","0","0","0","/">>

\* how many times the startup line is on standard output
StartupLines == Cardinality({i \in 1..Len(stdout) : stdout[i] = StartupLineText})

\* C6: the startup line is never on standard output more than once, and
\* whenever the listener is bound, a request has been accepted or a
\* response has been given, it is there exactly once
C6_PrintedBeforeServing ==
  /\ StartupLines <= 1
  /\ (pc = "serving" \/ server_address # Unbound \/ accepted > 0
        \/ Answered # {}) => StartupLines = 1

C6_Witness ==
  /\ Len(log) = 1
  /\ accepted = 2
  /\ StartupLines = 1

\* C7: once the bind has failed the process has terminated, no listener
\* is bound, and no request has been accepted or answered
C7_BindFailureFatal ==
  bind_error # None =>
    /\ pc = "terminated"
    /\ server_address = Unbound
    /\ accepted = 0
    /\ Answered = {}
    /\ \A c \in Conns : conn[c].st = "idle"

C7_Witness ==
  /\ bind_error = "EADDRINUSE"
  /\ pc = "terminated"
  /\ stdout # <<>>

\* C8: every response given, whatever was handled before it or is being
\* handled beside it, equals the response the freshly started application
\* gives to the same method and path
C8_Stateless ==
  \A a \in Answered :
    a.resp = full_dispatch_request(app.url_map, app.view_functions, FALSE, a.req)

C8_Witness ==
  /\ Len(log) = 1
  /\ got_first_request
  /\ \E c \in Conns :
       conn[c].st = "done" /\ conn[c].req = log[1].req
         /\ conn[c].req = [method |-> "GET", path |-> P_evening]

\* the (method, path) pairs the route table accepts
RoutePairs ==
  UNION {{<<m, url_map[i].rule>> : m \in url_map[i].methods} :
           i \in 1..Len(url_map)}

\* C9 as stated: the route table holds exactly the routes (GET, "/") and
\* (GET, "/evening"), in every state
C9_Original == RoutePairs = {<<"GET", P_root>>, <<"GET", P_evening>>}

\* C9 amended: in every state the route table holds the same three rules,
\* the framework's /static/<path:filename> rule and the rules "/" and
\* "/evening", each accepting GET, HEAD and OPTIONS, and the endpoints
\* index and evening are bound to the views returning the two literal bodies
C9_RouteTableFixed ==
  /\ Len(url_map) = 3
  /\ url_map[1].rule = <<"/","s","t","a","t","i","c","/">>
  /\ url_map[1].converter = "path"
  /\ url_map[2].rule = <<"/">> /\ url_map[2].endpoint = "index"
  /\ url_map[3].rule = <<"/","e","v","e","n","i","n","g">>
  /\ url_map[3].endpoint = "evening"
  /\ \A i \in 1..3 : url_map[i].methods = {"GET", "HEAD", "OPTIONS"}
  /\ \A i \in 2..3 : url_map[i].converter = "none"
  /\ DOMAIN view_functions = {"static", "index", "evening"}
  /\ call_view(view_functions, "index", P_root).body = HelloWorldText \o <<"\n">>
  /\ call_view(view_functions, "evening", P_evening).body = GoodEveningText

C9_Witness ==
  /\ Len(log) = 2
  /\ log[1].resp.status = 404
  /\ log[2].resp.status = 405
  /\ Len(url_map) = 3

\* C10: whenever the listener is bound, it is bound to host 127.0.0.1 and
\* port 3000, and standard output holds the startup line naming that host
\* and port
C10_BindAddress ==
  server_address # Unbound =>
    /\ server_address.host = <<"1","2","7",".","0",".","0",".","1">>
    /\ server_address.port = 3000
    /\ stdout = <<startup_line(server_address.host, server_address.port)>>
    /\ stdout[1] = StartupLineText

C10_Witness ==
  /\ server_address # Unbound
  /\ Len(log) = 2
  /\ log[1].resp.status = 200
  /\ log[2].resp.status = 200

====
